---------------------------- MODULE Spec2Model ----------------------------
(***************************************************************************)
(* A model of the marketing-analysis pipeline: MarketingAnalyzer           *)
(* (src/src/marketing_analysis/analyzer.py), its helpers (utils.py,        *)
(* visualization.py) and the batch driver (src/main.py).                   *)
(*                                                                         *)
(* A Polars DataFrame is a record [schema, rows]: schema maps each column  *)
(* name to its dtype, rows is a sequence of functions column -> value.     *)
(* Values are tagged records: text [t |-> "str", s |-> <<characters>>],    *)
(* finite numbers [t |-> "num", n, d] (the exact fraction n/d in lowest    *)
(* terms, standing for the Float64/Int64 value), the IEEE specials         *)
(* [t |-> "inf", sign] and [t |-> "nan"], and dates [t |-> "date", y,m,d]. *)
(* A Python call either returns (Ok) or raises (Raise).                    *)
(***************************************************************************)
EXTENDS Integers, Sequences, FiniteSets, TLC

VARIABLES
    data_file,        \* the CSV at DATA_FILE as pl.read_csv sees it, or Missing
    df,               \* MarketingAnalyzer.df
    marketing_data,   \* the table registered in duckdb_conn
    result,           \* outcome of the last call: Ok(value) or Raise(...)
    pc,               \* position of main (or of the caller of a function)
    kpis,             \* main's local kpis
    advanced_analysis,\* main's local advanced_analysis
    visualizations,   \* main's local visualizations
    quarto,           \* how the external rendering tool behaves in this run
    files,            \* files written so far
    console,          \* messages printed so far, in order
    calls             \* history: the public calls made and whether each returned

vars == <<data_file, df, marketing_data, result, pc, kpis, advanced_analysis,
          visualizations, quarto, files, console, calls>>

None == [t |-> "None"]
Missing == [t |-> "missing"]

\* ------------------------------------------------------------------------
\* Bounds of the model

MaxLen == 4       \* longest free-form monetary text enumerated
MaxRows == 2      \* most rows of a data file given to the analyzer
MaxAggRows == 3   \* most rows of a table given to an aggregation alone
MaxScore == 10    \* largest engagement score of a record

\* ------------------------------------------------------------------------
\* Python outcomes

Ok(v) == [ok |-> TRUE, value |-> v]

\* An exception: its type, the stage prefix of its message (or "" when the
\* library raised it) and the column names its message contains.
Raise(exc, prefix, names) ==
    [ok |-> FALSE, exc |-> exc, prefix |-> prefix, names |-> names]

\* ------------------------------------------------------------------------
\* Numbers

Abs(x) == IF x < 0 THEN -x ELSE x

RECURSIVE Gcd(_, _)
Gcd(a, b) == IF b = 0 THEN a ELSE Gcd(b, a % b)

RECURSIVE Pow10(_)
Pow10(k) == IF k = 0 THEN 1 ELSE 10 * Pow10(k - 1)

\* The fraction n/d (d > 0) in lowest terms.
Rat(n, d) ==
    LET g == Gcd(Abs(n), d)
    IN  [t |-> "num", n |-> n \div g, d |-> d \div g]

IntVal(n) == Rat(n, 1)
Inf(sign) == [t |-> "inf", sign |-> sign]
NaN == [t |-> "nan"]

IsFinite(v) == v.t = "num"
Sign(n) == IF n > 0 THEN 1 ELSE IF n < 0 THEN -1 ELSE 0

\* ------------------------------------------------------------------------
\* Text

Str(s) == [t |-> "str", s |-> s]

DigitChars == <<"0", "1", "2", "3", "4", "5", "6", "7", "8", "9">>
IsDigit(c) == \E i \in DOMAIN DigitChars : DigitChars[i] = c
DigitVal(c) == (CHOOSE i \in DOMAIN DigitChars : DigitChars[i] = c) - 1
IsSpace(c) == c = " "

RECURSIVE StripLeft(_)
StripLeft(s) ==
    IF s # <<>> /\ IsSpace(Head(s)) THEN StripLeft(Tail(s)) ELSE s

RECURSIVE StripRight(_)
StripRight(s) ==
    IF s # <<>> /\ IsSpace(s[Len(s)])
    THEN StripRight(SubSeq(s, 1, Len(s) - 1))
    ELSE s

\* Expr.str.strip_chars(): whitespace removed at both ends.
strip_chars(s) == StripRight(StripLeft(s))

\* Expr.str.replace(pattern, ""), pattern a one-character literal: the FIRST
\* match is removed (n = 1 is the default), the rest of the text is kept.
str_replace(s, c) ==
    IF \E i \in DOMAIN s : s[i] = c
    THEN LET i == CHOOSE k \in DOMAIN s :
                      s[k] = c /\ \A j \in 1..(k - 1) : s[j] # c
         IN  SubSeq(s, 1, i - 1) \o SubSeq(s, i + 1, Len(s))
    ELSE s

\* Expr.str.replace_all(pattern, ""): every match is removed.
RECURSIVE str_replace_all(_, _)
str_replace_all(s, c) ==
    IF s = <<>> THEN <<>>
    ELSE IF Head(s) = c THEN str_replace_all(Tail(s), c)
    ELSE <<Head(s)>> \o str_replace_all(Tail(s), c)

RECURSIVE DigitsValue(_)
DigitsValue(s) ==
    IF s = <<>> THEN 0
    ELSE 10 * DigitsValue(SubSeq(s, 1, Len(s) - 1)) + DigitVal(s[Len(s)])

\* The text after an optional sign.
Unsigned(s) == IF s # <<>> /\ Head(s) \in {"-", "+"} THEN Tail(s) ELSE s

\* Whether a strict cast of the text to Float64 succeeds: an optional sign,
\* digits with at most one decimal point, and at least one digit.
IsFloatText(s) ==
    LET u == Unsigned(s)
    IN  /\ \A i \in DOMAIN u : IsDigit(u[i]) \/ u[i] = "."
        /\ Cardinality({i \in DOMAIN u : u[i] = "."}) <= 1
        /\ \E i \in DOMAIN u : IsDigit(u[i])

\* The Float64 a castable text denotes.
FloatOfText(s) ==
    LET u    == Unsigned(s)
        dots == {i \in DOMAIN u : u[i] = "."}
        frac == IF dots = {} THEN 0
                ELSE Len(u) - (CHOOSE i \in dots : TRUE)
        mant == DigitsValue(str_replace(u, "."))
        sgn  == IF s # <<>> /\ Head(s) = "-" THEN -1 ELSE 1
    IN  Rat(sgn * mant, Pow10(frac))

\* ------------------------------------------------------------------------
\* DataFrames

Table(schema, rows) == [t |-> "df", schema |-> schema, rows |-> rows]
Columns(t) == DOMAIN t.schema
Height(t) == Len(t.rows)
Col(t, c) == [i \in DOMAIN t.rows |-> t.rows[i][c]]

\* DataFrame.with_columns(expr.alias(c)): column c added or replaced.
with_column(t, c, dtype, vals) ==
    Table((c :> dtype) @@ t.schema,
          [i \in DOMAIN t.rows |-> (c :> vals[i]) @@ t.rows[i]])

NumericDtypes == {"i64", "f64"}

\* ------------------------------------------------------------------------
\* utils.clean_monetary_value

\* The text the cast sees: stripped, first "$" removed, first "," removed.
cleaned_text(s) == str_replace(str_replace(strip_chars(s), "$"), ",")

\* A cast that is not strict: a text that is no number becomes null.
cast_float64_lenient(t, column, texts) ==
    Ok(with_column(t, column, "f64",
                   [i \in DOMAIN texts |->
                       IF IsFloatText(texts[i]) THEN FloatOfText(texts[i])
                       ELSE None]))

\* The cast to Float64 is strict: one text that is no number fails the
\* whole expression, and the error message names the column.
cast_float64_strict(t, column, texts) ==
    IF \A i \in DOMAIN texts : IsFloatText(texts[i])
    THEN Ok(with_column(t, column, "f64",
                        [i \in DOMAIN texts |-> FloatOfText(texts[i])]))
    ELSE Raise("InvalidOperationError", "", {column})

clean_monetary_value(t, column) ==
    IF column \notin Columns(t)
    THEN Raise("ColumnNotFoundError", "", {column})
    ELSE IF t.schema[column] # "str"
    THEN Raise("SchemaError", "", {})
    ELSE cast_float64_strict(t, column,
             [i \in DOMAIN t.rows |-> cleaned_text(t.rows[i][column].s)])

\* ------------------------------------------------------------------------
\* Float64 arithmetic (IEEE 754: a zero divisor gives an infinity or NaN,
\* never an exception).  A null operand (None) gives null.

Neg(a) == IF a.t = "num" THEN Rat(-a.n, a.d)
          ELSE IF a.t = "inf" THEN Inf(-a.sign) ELSE NaN

SignOf(a) == IF a.t = "num" THEN Sign(a.n) ELSE a.sign

Add(a, b) ==
    IF a = None \/ b = None THEN None
    ELSE IF a.t = "nan" \/ b.t = "nan" THEN NaN
    ELSE IF a.t = "inf" /\ b.t = "inf"
    THEN IF a.sign = b.sign THEN a ELSE NaN
    ELSE IF a.t = "inf" THEN a
    ELSE IF b.t = "inf" THEN b
    ELSE Rat(a.n * b.d + b.n * a.d, a.d * b.d)

Mul(a, b) ==
    IF a = None \/ b = None THEN None
    ELSE IF a.t = "nan" \/ b.t = "nan" THEN NaN
    ELSE IF a.t = "inf" \/ b.t = "inf"
    THEN IF SignOf(a) = 0 \/ SignOf(b) = 0 THEN NaN
         ELSE Inf(SignOf(a) * SignOf(b))
    ELSE Rat(a.n * b.n, a.d * b.d)

\* a / b on Float64 (Int64 operands are cast to Float64 first).
Div(a, b) ==
    IF a = None \/ b = None THEN None
    ELSE IF a.t = "nan" \/ b.t = "nan" THEN NaN
    ELSE IF b.t = "inf"
    THEN IF a.t = "inf" THEN NaN ELSE IntVal(0)
    ELSE IF b.n = 0
    THEN IF SignOf(a) = 0 THEN NaN ELSE Inf(SignOf(a))
    ELSE IF a.t = "inf" THEN Inf(a.sign * Sign(b.n))
    ELSE Rat(a.n * b.d * Sign(b.n), a.d * Abs(b.n))

\* Whether a >= b holds; a comparison with NaN on either side is decided
\* by Polars' total order, in which NaN is the largest value, and a
\* comparison with null does not hold.
Ge(a, b) ==
    IF a = None \/ b = None THEN FALSE
    ELSE IF a.t = "nan" THEN TRUE
    ELSE IF b.t = "nan" THEN FALSE
    ELSE IF a.t = "inf" THEN a.sign = 1 \/ (b.t = "inf" /\ b.sign = -1)
    ELSE IF b.t = "inf" THEN b.sign = -1
    ELSE a.n * b.d >= b.n * a.d

NotNull(v) == v # None

\* Expr.sum(): the sum of the values that are not null.
RECURSIVE SumSeq(_)
SumSeq(vs) ==
    IF vs = <<>> THEN IntVal(0)
    ELSE IF Head(vs) = None THEN SumSeq(Tail(vs))
    ELSE Add(Head(vs), SumSeq(Tail(vs)))

\* Expr.mean(): the mean of the values that are not null, None (null)
\* when there is none.
Mean(vs) ==
    LET present == SelectSeq(vs, NotNull)
    IN  IF present = <<>> THEN None
        ELSE Div(SumSeq(present), IntVal(Len(present)))

\* ------------------------------------------------------------------------
\* utils.calculate_derived_metrics and utils.add_performance_categories

ROI_HIGH == 7
ROI_MEDIUM == 5
ENGAGEMENT_HIGH == 8
ENGAGEMENT_MEDIUM == 6
CONVERSION_HIGH == Rat(1, 10)
CONVERSION_MEDIUM == Rat(5, 100)

\* An arithmetic expression over columns: every column must exist
\* (ColumnNotFoundError names the first missing one) and be numeric.
ColumnsError(t, needed) ==
    IF \E c \in needed : c \notin Columns(t)
    THEN Raise("ColumnNotFoundError", "",
               {CHOOSE c \in needed : c \notin Columns(t)})
    ELSE IF \E c \in needed : t.schema[c] \notin NumericDtypes
    THEN Raise("InvalidOperationError", "", {})
    ELSE None

\* ROI tiers with the thresholds exclusive.
roi_category_exclusive(r) ==
    IF ~Ge(IntVal(ROI_HIGH), r["ROI"]) THEN "Haute performance"
    ELSE IF ~Ge(IntVal(ROI_MEDIUM), r["ROI"]) THEN "Performance moyenne"
    ELSE "Basse performance"

roi_category(r) ==
    IF Ge(r["ROI"], IntVal(ROI_HIGH)) THEN "Haute performance"
    ELSE IF Ge(r["ROI"], IntVal(ROI_MEDIUM)) THEN "Performance moyenne"
    ELSE "Basse performance"

engagement_category(r) ==
    IF Ge(r["Engagement_Score"], IntVal(ENGAGEMENT_HIGH)) THEN "Très engageant"
    ELSE IF Ge(r["Engagement_Score"], IntVal(ENGAGEMENT_MEDIUM)) THEN "Engageant"
    ELSE "Peu engageant"

conversion_category(r) ==
    IF Ge(r["Conversion_Rate"], CONVERSION_HIGH) THEN "Haute conversion"
    ELSE IF Ge(r["Conversion_Rate"], CONVERSION_MEDIUM) THEN "Conversion moyenne"
    ELSE "Basse conversion"

add_performance_categories(t) ==
    LET err == ColumnsError(t, {"ROI", "Engagement_Score", "Conversion_Rate"})
    IN  IF err # None THEN err
        ELSE Ok(with_column(
                  with_column(
                    with_column(t, "ROI_Category", "cat",
                        [i \in DOMAIN t.rows |-> roi_category(t.rows[i])]),
                    "Engagement_Category", "cat",
                    [i \in DOMAIN t.rows |-> engagement_category(t.rows[i])]),
                  "Conversion_Category", "cat",
                  [i \in DOMAIN t.rows |-> conversion_category(t.rows[i])]))

\* A click-through rate that guards its denominator.
ctr_guarded(r) ==
    IF r["Impressions"].n = 0 THEN IntVal(0)
    ELSE Div(r["Clicks"], r["Impressions"])

ctr(r) == Div(r["Clicks"], r["Impressions"])
cpc(r) == Div(r["Acquisition_Cost"], r["Clicks"])
cpm(r) == Mul(Div(r["Acquisition_Cost"], r["Impressions"]), IntVal(1000))
total_conversions(r) == Mul(r["Conversion_Rate"], r["Clicks"])
cpa(r) == Div(r["Acquisition_Cost"], Mul(r["Conversion_Rate"], r["Clicks"]))

\* The five derived columns, all computed from the input table's columns.
derived_columns(t) ==
    Table([c \in {"CTR", "CPC", "CPM", "Total_Conversions", "CPA"} |-> "f64"]
              @@ t.schema,
          [i \in DOMAIN t.rows |->
              LET r == t.rows[i]
              IN  [CTR |-> ctr(r), CPC |-> cpc(r), CPM |-> cpm(r),
                   Total_Conversions |-> total_conversions(r), CPA |-> cpa(r)]
                  @@ r])

calculate_derived_metrics(t) ==
    LET err == ColumnsError(t, {"Clicks", "Impressions", "Acquisition_Cost",
                                "Conversion_Rate"})
    IN  IF err # None THEN err
        ELSE add_performance_categories(derived_columns(t))

\* ------------------------------------------------------------------------
\* Ordering of values (sort keys)

\* Characters in code-point order, as far as the model's texts use them.
CharOrder == <<" ", "$", "+", ",", "-", ".", "/",
               "0", "1", "2", "3", "4", "5", "6", "7", "8", "9",
               "A", "B", "E", "S", "a", "b", "c", "i", "l", "m", "n", "o", "x">>
CharCode(c) == CHOOSE i \in DOMAIN CharOrder : CharOrder[i] = c

RECURSIVE LexLe(_, _)
LexLe(a, b) ==
    IF a = <<>> THEN TRUE
    ELSE IF b = <<>> THEN FALSE
    ELSE IF Head(a) = Head(b) THEN LexLe(Tail(a), Tail(b))
    ELSE CharCode(Head(a)) < CharCode(Head(b))

DateLe(a, b) ==
    \/ a.y < b.y
    \/ a.y = b.y /\ a.m < b.m
    \/ a.y = b.y /\ a.m = b.m /\ a.d <= b.d

\* a <= b for two values of one column.
ValLe(a, b) ==
    IF a.t = "str" THEN LexLe(a.s, b.s)
    ELSE IF a.t = "date" THEN DateLe(a, b)
    ELSE Ge(b, a)

Perms(S) ==
    {p \in [1..Cardinality(S) -> S] :
        \A i, j \in 1..Cardinality(S) : i # j => p[i] # p[j]}

\* Every order of the rows S a sort by column c can return: group_by
\* yields its groups in no particular order and rows with equal keys keep
\* whatever order they had.
SortedBy(S, c, descending) ==
    {p \in Perms(S) :
        \A i, j \in DOMAIN p :
            i < j => IF descending THEN ValLe(p[j][c], p[i][c])
                     ELSE ValLe(p[i][c], p[j][c])}

\* ------------------------------------------------------------------------
\* Grouping and aggregation

GroupKeys(t, by) == {[c \in by |-> t.rows[i][c]] : i \in DOMAIN t.rows}

SameKey(r, key) == \A c \in DOMAIN key : r[c] = key[c]

\* The values of column c over the rows of one group, in row order.
RECURSIVE GroupCol(_, _, _)
GroupCol(rows, key, c) ==
    IF rows = <<>> THEN <<>>
    ELSE IF SameKey(Head(rows), key)
    THEN <<Head(rows)[c]>> \o GroupCol(Tail(rows), key, c)
    ELSE GroupCol(Tail(rows), key, c)

GroupSize(rows, key) == Cardinality({i \in DOMAIN rows : SameKey(rows[i], key)})

\* Outcomes of a call that may return one of several values.
Fails(outcomes) == \E o \in outcomes : ~o.ok
Failure(outcomes) == CHOOSE o \in outcomes : ~o.ok

\* Aggregated columns must exist; Acquisition_Cost, when summed, must be
\* numeric (a sum over text is an InvalidOperationError).  The other
\* aggregated columns are numeric in every table the model loads.
AggError(t, needed) ==
    IF \E c \in needed : c \notin Columns(t)
    THEN Raise("ColumnNotFoundError", "",
               {CHOOSE c \in needed : c \notin Columns(t)})
    ELSE IF "Acquisition_Cost" \in needed
            /\ t.schema["Acquisition_Cost"] \notin NumericDtypes
    THEN Raise("InvalidOperationError", "", {})
    ELSE None

\* ------------------------------------------------------------------------
\* MarketingAnalyzer: the aggregations of calculate_kpis

_calculate_global_metrics(t) ==
    LET err == AggError(t, {"Conversion_Rate", "ROI", "Acquisition_Cost",
                            "CTR", "Engagement_Score"})
    IN  IF err # None THEN {err}
        ELSE {Ok(Table(
                [c \in {"avg_conversion_rate", "avg_roi", "total_spend",
                        "avg_ctr", "avg_engagement"} |-> "f64"],
                <<[avg_conversion_rate |-> Mean(Col(t, "Conversion_Rate")),
                   avg_roi |-> Mean(Col(t, "ROI")),
                   total_spend |-> SumSeq(Col(t, "Acquisition_Cost")),
                   avg_ctr |-> Mean(Col(t, "CTR")),
                   avg_engagement |-> Mean(Col(t, "Engagement_Score"))]>>))}

\* A channel row whose campaign_count counts each identifier once.
channel_row_distinct(t, key) ==
    [Channel_Used |-> key["Channel_Used"],
     avg_conversion |-> Mean(GroupCol(t.rows, key, "Conversion_Rate")),
     avg_roi |-> Mean(GroupCol(t.rows, key, "ROI")),
     campaign_count |->
         IntVal(Cardinality({t.rows[i]["Campaign_ID"] :
                                i \in {k \in DOMAIN t.rows :
                                          SameKey(t.rows[k], key)}})),
     avg_engagement |-> Mean(GroupCol(t.rows, key, "Engagement_Score")),
     total_cost |-> SumSeq(GroupCol(t.rows, key, "Acquisition_Cost"))]

channel_row(t, key) ==
    [Channel_Used |-> key["Channel_Used"],
     avg_conversion |-> Mean(GroupCol(t.rows, key, "Conversion_Rate")),
     avg_roi |-> Mean(GroupCol(t.rows, key, "ROI")),
     campaign_count |-> IntVal(GroupSize(t.rows, key)),
     avg_engagement |-> Mean(GroupCol(t.rows, key, "Engagement_Score")),
     total_cost |-> SumSeq(GroupCol(t.rows, key, "Acquisition_Cost"))]

ChannelSchema ==
    [Channel_Used |-> "str", avg_conversion |-> "f64", avg_roi |-> "f64",
     campaign_count |-> "u32", avg_engagement |-> "f64", total_cost |-> "f64"]

\* The channel aggregation sorted by mean ROI ascending.
_analyze_channel_performance_ascending(t) ==
    LET err == AggError(t, {"Channel_Used", "Conversion_Rate", "ROI",
                            "Engagement_Score", "Acquisition_Cost"})
    IN  IF err # None THEN {err}
        ELSE {Ok(Table(ChannelSchema, p)) :
                p \in SortedBy({channel_row(t, k) :
                                   k \in GroupKeys(t, {"Channel_Used"})},
                               "avg_roi", FALSE)}

_analyze_channel_performance(t) ==
    LET err == AggError(t, {"Channel_Used", "Conversion_Rate", "ROI",
                            "Engagement_Score", "Acquisition_Cost"})
    IN  IF err # None THEN {err}
        ELSE {Ok(Table(ChannelSchema, p)) :
                p \in SortedBy({channel_row(t, k) :
                                   k \in GroupKeys(t, {"Channel_Used"})},
                               "avg_roi", TRUE)}

segment_row(t, key) ==
    [Customer_Segment |-> key["Customer_Segment"],
     avg_conversion |-> Mean(GroupCol(t.rows, key, "Conversion_Rate")),
     avg_roi |-> Mean(GroupCol(t.rows, key, "ROI")),
     avg_engagement |-> Mean(GroupCol(t.rows, key, "Engagement_Score")),
     campaign_count |-> IntVal(GroupSize(t.rows, key))]

SegmentSchema ==
    [Customer_Segment |-> "str", avg_conversion |-> "f64", avg_roi |-> "f64",
     avg_engagement |-> "f64", campaign_count |-> "u32"]

_analyze_segment_performance(t) ==
    LET err == AggError(t, {"Customer_Segment", "Conversion_Rate", "ROI",
                            "Engagement_Score"})
    IN  IF err # None THEN {err}
        ELSE {Ok(Table(SegmentSchema, p)) :
                p \in SortedBy({segment_row(t, k) :
                                   k \in GroupKeys(t, {"Customer_Segment"})},
                               "avg_roi", TRUE)}

temporal_row(t, key) ==
    [Date |-> key["Date"],
     avg_roi |-> Mean(GroupCol(t.rows, key, "ROI")),
     avg_conversion |-> Mean(GroupCol(t.rows, key, "Conversion_Rate")),
     total_clicks |-> SumSeq(GroupCol(t.rows, key, "Clicks")),
     daily_spend |-> SumSeq(GroupCol(t.rows, key, "Acquisition_Cost"))]

TemporalSchema(t) ==
    [Date |-> t.schema["Date"], avg_roi |-> "f64", avg_conversion |-> "f64",
     total_clicks |-> "i64", daily_spend |-> "f64"]

\* The temporal aggregation without its sort: the groups in whatever
\* order group_by yields them.
_analyze_temporal_performance_unsorted(t) ==
    LET err == AggError(t, {"Date", "ROI", "Conversion_Rate", "Clicks",
                            "Acquisition_Cost"})
    IN  IF err # None THEN {err}
        ELSE {Ok(Table(TemporalSchema(t), p)) :
                p \in Perms({temporal_row(t, k) :
                                k \in GroupKeys(t, {"Date"})})}

_analyze_temporal_performance(t) ==
    LET err == AggError(t, {"Date", "ROI", "Conversion_Rate", "Clicks",
                            "Acquisition_Cost"})
    IN  IF err # None THEN {err}
        ELSE {Ok(Table(TemporalSchema(t), p)) :
                p \in SortedBy({temporal_row(t, k) :
                                   k \in GroupKeys(t, {"Date"})},
                               "Date", FALSE)}

KPI_ERROR == "Erreur lors du calcul des KPIs"
NO_DATA == "Aucune donnée n'a été chargée"

\* Every outcome calculate_kpis can have on the working table t.
calculate_kpis(t) ==
    IF t = None THEN {Raise("ValueError", NO_DATA, {})}
    ELSE LET g  == _calculate_global_metrics(t)
             c  == _analyze_channel_performance(t)
             s  == _analyze_segment_performance(t)
             tp == _analyze_temporal_performance(t)
             first == IF Fails(g) THEN g ELSE IF Fails(c) THEN c
                      ELSE IF Fails(s) THEN s ELSE tp
         IN  IF Fails(g) \/ Fails(c) \/ Fails(s) \/ Fails(tp)
             THEN {Raise("RuntimeError", KPI_ERROR, Failure(first).names)}
             ELSE {Ok([overall_metrics |-> og.value,
                       channel_performance |-> oc.value,
                       segment_performance |-> os.value,
                       temporal_analysis |-> ot.value]) :
                     og \in g, oc \in c, os \in s, ot \in tp}

\* ------------------------------------------------------------------------
\* MarketingAnalyzer.clean_data

IsLeap(y) == (y % 4 = 0 /\ y % 100 # 0) \/ y % 400 = 0

DaysIn(y, m) ==
    IF m = 2 THEN (IF IsLeap(y) THEN 29 ELSE 28)
    ELSE IF m \in {4, 6, 9, 11} THEN 30 ELSE 31

\* Whether the text matches "%Y-%m-%d" and names a day of the calendar.
IsDateText(s) ==
    /\ Len(s) = 10
    /\ s[5] = "-" /\ s[8] = "-"
    /\ \A i \in {1, 2, 3, 4, 6, 7, 9, 10} : IsDigit(s[i])
    /\ LET y == DigitsValue(SubSeq(s, 1, 4))
           m == DigitsValue(SubSeq(s, 6, 7))
           d == DigitsValue(SubSeq(s, 9, 10))
       IN  m \in 1..12 /\ d \in 1..DaysIn(y, m)

DateOfText(s) ==
    [t |-> "date", y |-> DigitsValue(SubSeq(s, 1, 4)),
     m |-> DigitsValue(SubSeq(s, 6, 7)), d |-> DigitsValue(SubSeq(s, 9, 10))]

\* pl.col("Date").str.strptime(pl.Date, format="%Y-%m-%d"), strict.
convert_dates(t) ==
    IF "Date" \notin Columns(t)
    THEN Raise("ColumnNotFoundError", "", {"Date"})
    ELSE IF t.schema["Date"] # "str"
    THEN Raise("SchemaError", "", {})
    ELSE IF \E i \in DOMAIN t.rows : ~IsDateText(t.rows[i]["Date"].s)
    THEN Raise("InvalidOperationError", "", {"Date"})
    ELSE Ok(with_column(t, "Date", "date",
                [i \in DOMAIN t.rows |-> DateOfText(t.rows[i]["Date"].s)]))

CLEAN_ERROR == "Erreur lors du nettoyage des données"

\* A clean_data that returns an already cleaned table as it is.
clean_data_repeatable(t) ==
    IF t = None
    THEN [out |-> Raise("ValueError", NO_DATA, {}), df |-> t]
    ELSE IF "Date" \in Columns(t) /\ t.schema["Date"] = "date"
    THEN [out |-> Ok(t), df |-> t]
    ELSE LET s1 == clean_monetary_value(t, "Acquisition_Cost")
             s2 == IF s1.ok THEN calculate_derived_metrics(s1.value) ELSE s1
             s3 == IF s2.ok THEN convert_dates(s2.value) ELSE s2
         IN  IF s3.ok THEN [out |-> Ok(s3.value), df |-> s3.value]
             ELSE [out |-> Raise("RuntimeError", CLEAN_ERROR, s3.names),
                   df |-> t]

\* clean_data on the working table t: the outcome of the call and the
\* working table it leaves.  self.df is assigned after each step, so a
\* later step that raises leaves the table of the step before it.
clean_data(t) ==
    IF t = None
    THEN [out |-> Raise("ValueError", NO_DATA, {}), df |-> t]
    ELSE LET s1 == clean_monetary_value(t, "Acquisition_Cost")
         IN  IF ~s1.ok
             THEN [out |-> Raise("RuntimeError", CLEAN_ERROR, s1.names),
                   df |-> t]
             ELSE LET s2 == calculate_derived_metrics(s1.value)
                  IN  IF ~s2.ok
                      THEN [out |-> Raise("RuntimeError", CLEAN_ERROR, s2.names),
                            df |-> s1.value]
                      ELSE LET s3 == convert_dates(s2.value)
                           IN  IF ~s3.ok
                               THEN [out |-> Raise("RuntimeError", CLEAN_ERROR,
                                                   s3.names),
                                     df |-> s2.value]
                               ELSE [out |-> Ok(s3.value), df |-> s3.value]

\* ------------------------------------------------------------------------
\* MarketingAnalyzer.analyze_with_duckdb

MIN_CAMPAIGNS == 10

\* A query binds only when its columns exist and every aggregated or
\* date-truncated column has a numeric or date type: a VARCHAR column is
\* not cast implicitly.
BindError(t, needed, numeric, dates) ==
    IF \E c \in needed \cup numeric \cup dates : c \notin Columns(t)
    THEN Raise("BinderException", "",
               {CHOOSE c \in needed \cup numeric \cup dates : c \notin Columns(t)})
    ELSE IF \E c \in numeric : t.schema[c] \notin NumericDtypes
    THEN Raise("BinderException", "", {})
    ELSE IF \E c \in dates : t.schema[c] # "date"
    THEN Raise("BinderException", "", {})
    ELSE None

segment_channel_row(t, key) ==
    [Customer_Segment |-> key["Customer_Segment"],
     Channel_Used |-> key["Channel_Used"],
     avg_conversion |-> Mean(GroupCol(t.rows, key, "Conversion_Rate")),
     avg_roi |-> Mean(GroupCol(t.rows, key, "ROI")),
     campaign_count |-> IntVal(GroupSize(t.rows, key)),
     total_cost |-> SumSeq(GroupCol(t.rows, key, "Acquisition_Cost"))]

SegmentChannelSchema ==
    [Customer_Segment |-> "str", Channel_Used |-> "str",
     avg_conversion |-> "f64", avg_roi |-> "f64", campaign_count |-> "i64",
     total_cost |-> "f64"]

\* The cross-tab keeping only the groups above the minimum size.
_analyze_segment_channel_performance_above(t) ==
    LET err == BindError(t, {"Customer_Segment", "Channel_Used"},
                         {"Conversion_Rate", "ROI", "Acquisition_Cost"}, {})
    IN  IF err # None THEN {err}
        ELSE {Ok(Table(SegmentChannelSchema, p)) :
                p \in SortedBy(
                    {segment_channel_row(t, k) :
                        k \in {g \in GroupKeys(t, {"Customer_Segment",
                                                   "Channel_Used"}) :
                                 GroupSize(t.rows, g) > MIN_CAMPAIGNS}},
                    "avg_roi", TRUE)}

_analyze_segment_channel_performance(t) ==
    LET err == BindError(t, {"Customer_Segment", "Channel_Used"},
                         {"Conversion_Rate", "ROI", "Acquisition_Cost"}, {})
    IN  IF err # None THEN {err}
        ELSE {Ok(Table(SegmentChannelSchema, p)) :
                p \in SortedBy(
                    {segment_channel_row(t, k) :
                        k \in {g \in GroupKeys(t, {"Customer_Segment",
                                                   "Channel_Used"}) :
                                 GroupSize(t.rows, g) >= MIN_CAMPAIGNS}},
                    "avg_roi", TRUE)}

\* DATE_TRUNC('month', Date)
date_trunc_month(d) == [t |-> "date", y |-> d.y, m |-> d.m, d |-> 1]

CohortKeys(t) ==
    {[cohort_month |-> date_trunc_month(t.rows[i]["Date"]),
      Customer_Segment |-> t.rows[i]["Customer_Segment"]] :
        i \in DOMAIN t.rows}

InCohort(r, key) ==
    /\ date_trunc_month(r["Date"]) = key.cohort_month
    /\ r["Customer_Segment"] = key.Customer_Segment

CohortRows(t, key) == {i \in DOMAIN t.rows : InCohort(t.rows[i], key)}

RECURSIVE CohortCol(_, _, _)
CohortCol(rows, key, c) ==
    IF rows = <<>> THEN <<>>
    ELSE IF InCohort(Head(rows), key)
    THEN <<Head(rows)[c]>> \o CohortCol(Tail(rows), key, c)
    ELSE CohortCol(Tail(rows), key, c)

\* A cohort row that counts the rows of the group, not the identifiers.
cohort_row_all(t, key) ==
    [cohort_month |-> key.cohort_month,
     Customer_Segment |-> key.Customer_Segment,
     campaigns |-> IntVal(Cardinality(CohortRows(t, key))),
     avg_roi |-> Mean(CohortCol(t.rows, key, "ROI")),
     avg_conversion |-> Mean(CohortCol(t.rows, key, "Conversion_Rate"))]

cohort_row(t, key) ==
    [cohort_month |-> key.cohort_month,
     Customer_Segment |-> key.Customer_Segment,
     campaigns |-> IntVal(Cardinality({t.rows[i]["Campaign_ID"] :
                                          i \in CohortRows(t, key)})),
     avg_roi |-> Mean(CohortCol(t.rows, key, "ROI")),
     avg_conversion |-> Mean(CohortCol(t.rows, key, "Conversion_Rate"))]

CohortSchema ==
    [cohort_month |-> "date", Customer_Segment |-> "str", campaigns |-> "i64",
     avg_roi |-> "f64", avg_conversion |-> "f64"]

\* ORDER BY 1, 2
CohortLe(a, b) ==
    IF a.cohort_month = b.cohort_month
    THEN ValLe(a.Customer_Segment, b.Customer_Segment)
    ELSE DateLe(a.cohort_month, b.cohort_month)

_analyze_cohorts(t) ==
    LET err == BindError(t, {"Customer_Segment", "Campaign_ID"},
                         {"ROI", "Conversion_Rate"}, {"Date"})
    IN  IF err # None THEN {err}
        ELSE LET S == {cohort_row(t, k) : k \in CohortKeys(t)}
             IN  {Ok(Table(CohortSchema, p)) :
                    p \in {q \in Perms(S) :
                             \A i, j \in DOMAIN q :
                                 i < j => CohortLe(q[i], q[j])}}

DUCKDB_ERROR == "Erreur lors de l'analyse DuckDB"

\* Every outcome analyze_with_duckdb can have on the working table t
\* (which it registers as marketing_data before it queries).
analyze_with_duckdb(t) ==
    IF t = None THEN {Raise("RuntimeError", DUCKDB_ERROR, {})}
    ELSE LET sc == _analyze_segment_channel_performance(t)
             co == _analyze_cohorts(t)
         IN  IF Fails(sc)
             THEN {Raise("RuntimeError", DUCKDB_ERROR, Failure(sc).names)}
             ELSE IF Fails(co)
             THEN {Raise("RuntimeError", DUCKDB_ERROR, Failure(co).names)}
             ELSE {Ok([segment_channel_analysis |-> a.value,
                       cohort_analysis |-> b.value]) : a \in sc, b \in co}

\* ------------------------------------------------------------------------
\* utils.segment_analysis

native_segment_row(t, key) ==
    [Customer_Segment |-> key["Customer_Segment"],
     avg_roi |-> Mean(GroupCol(t.rows, key, "ROI")),
     avg_conversion |-> Mean(GroupCol(t.rows, key, "Conversion_Rate")),
     avg_engagement |-> Mean(GroupCol(t.rows, key, "Engagement_Score")),
     total_spend |-> SumSeq(GroupCol(t.rows, key, "Acquisition_Cost")),
     campaign_count |-> IntVal(GroupSize(t.rows, key))]

NativeSegmentSchema ==
    [Customer_Segment |-> "str", avg_roi |-> "f64", avg_conversion |-> "f64",
     avg_engagement |-> "f64", total_spend |-> "f64", campaign_count |-> "u32"]

native_segment_channel_row(t, key) ==
    [Customer_Segment |-> key["Customer_Segment"],
     Channel_Used |-> key["Channel_Used"],
     avg_roi |-> Mean(GroupCol(t.rows, key, "ROI")),
     avg_conversion |-> Mean(GroupCol(t.rows, key, "Conversion_Rate")),
     campaign_count |-> IntVal(GroupSize(t.rows, key))]

NativeSegmentChannelSchema ==
    [Customer_Segment |-> "str", Channel_Used |-> "str", avg_roi |-> "f64",
     avg_conversion |-> "f64", campaign_count |-> "u32"]

\* sort(["Customer_Segment", "avg_roi"], descending=[False, True])
SegmentThenRoiLe(a, b) ==
    IF a["Customer_Segment"] = b["Customer_Segment"]
    THEN Ge(a["avg_roi"], b["avg_roi"])
    ELSE ValLe(a["Customer_Segment"], b["Customer_Segment"])

\* Every outcome segment_analysis can have on the table t.  It calls
\* DataFrame.groupby, which Polars releases before 1.0 provide and later
\* ones do not (the call then raises AttributeError); where it exists,
\* every group is kept, whatever its size.
segment_analysis(t) ==
    LET err == AggError(t, {"Customer_Segment", "Channel_Used", "ROI",
                            "Conversion_Rate", "Engagement_Score",
                            "Acquisition_Cost"})
        segments == {native_segment_row(t, k) :
                        k \in GroupKeys(t, {"Customer_Segment"})}
        pairs == {native_segment_channel_row(t, k) :
                     k \in GroupKeys(t, {"Customer_Segment", "Channel_Used"})}
    IN  {Raise("AttributeError", "", {})}
        \cup (IF err # None THEN {err}
              ELSE {Ok([segment_performance |-> Table(NativeSegmentSchema, p),
                        segment_channel |->
                            Table(NativeSegmentChannelSchema, q)]) :
                      p \in SortedBy(segments, "avg_roi", TRUE),
                      q \in {x \in Perms(pairs) :
                               \A i, j \in DOMAIN x :
                                   i < j => SegmentThenRoiLe(x[i], x[j])}})

\* ------------------------------------------------------------------------
\* visualization.create_performance_plots

Figure(title, traces) == [t |-> "fig", title |-> title, traces |-> traces]
Trace(kind, name, x, y) == [kind |-> kind, name |-> name, x |-> x, y |-> y]

\* df[c] on each of the columns cs: a missing one raises.
ColumnAccessError(t, cs) ==
    IF \E c \in cs : c \notin Columns(t)
    THEN Raise("ColumnNotFoundError", "",
               {CHOOSE c \in cs : c \notin Columns(t)})
    ELSE None

temporal_traces(t) ==
    <<Trace("scatter", "ROI moyen", Col(t, "Date"), Col(t, "avg_roi")),
      Trace("scatter", "Taux de conversion", Col(t, "Date"),
            Col(t, "avg_conversion"))>>

create_temporal_analysis(t) ==
    LET err == ColumnAccessError(t, {"Date", "avg_roi", "avg_conversion"})
    IN  IF err # None THEN err
        ELSE Ok(Figure("Évolution temporelle des performances",
                       temporal_traces(t)))

create_channel_analysis(t) ==
    LET err == ColumnAccessError(t, {"Channel_Used", "avg_roi",
                                     "avg_engagement"})
    IN  IF err # None THEN err
        ELSE Ok(Figure("Performance par canal",
                  <<Trace("bar", "ROI moyen", Col(t, "Channel_Used"),
                          Col(t, "avg_roi")),
                    Trace("scatter", "Score d'engagement",
                          Col(t, "Channel_Used"), Col(t, "avg_engagement"))>>))

\* px.scatter(..., color="Customer_Segment"): one trace per segment row.
create_segment_analysis(t) ==
    LET err == ColumnAccessError(t, {"avg_conversion", "avg_roi",
                  "campaign_count", "Customer_Segment", "avg_engagement"})
    IN  IF err # None THEN err
        ELSE Ok(Figure("Matrice de performance des segments",
                  [i \in DOMAIN t.rows |->
                      Trace("scatter", t.rows[i]["Customer_Segment"],
                            <<t.rows[i]["avg_conversion"]>>,
                            <<t.rows[i]["avg_roi"]>>)]))

\* max(df["campaign_count"]) raises ValueError on an empty column.
_add_segment_subplot(t) ==
    LET err == ColumnAccessError(t, {"avg_conversion", "avg_roi",
                                     "campaign_count", "Customer_Segment"})
    IN  IF err # None THEN err
        ELSE IF t.rows = <<>> THEN Raise("ValueError", "", {})
        ELSE Ok(<<Trace("scatter", "Segments", Col(t, "avg_conversion"),
                        Col(t, "avg_roi"))>>)

create_performance_overview(temporal_data, channel_data, segment_data) ==
    LET e1 == ColumnAccessError(temporal_data,
                                {"Date", "avg_roi", "avg_conversion"})
        e2 == ColumnAccessError(channel_data, {"Channel_Used", "avg_roi"})
        sg == _add_segment_subplot(segment_data)
    IN  IF e1 # None THEN e1
        ELSE IF e2 # None THEN e2
        ELSE IF ~sg.ok THEN sg
        ELSE Ok(Figure("Synthèse des performances marketing",
                  temporal_traces(temporal_data)
                  \o <<Trace("bar", "ROI par canal",
                             Col(channel_data, "Channel_Used"),
                             Col(channel_data, "avg_roi"))>>
                  \o sg.value
                  \o <<Trace("box", "Distribution ROI", <<>>,
                             Col(temporal_data, "avg_roi"))>>))

create_performance_plots(temporal_data, channel_data, segment_data) ==
    LET a == create_temporal_analysis(temporal_data)
        b == create_channel_analysis(channel_data)
        c == create_segment_analysis(segment_data)
        d == create_performance_overview(temporal_data, channel_data,
                                         segment_data)
    IN  IF ~a.ok THEN a ELSE IF ~b.ok THEN b ELSE IF ~c.ok THEN c
        ELSE IF ~d.ok THEN d
        ELSE Ok([temporal_trends |-> a.value, channel_comparison |-> b.value,
                 segment_matrix |-> c.value, performance_overview |-> d.value])

VIZ_ERROR == "Erreur lors de la création des visualisations"

\* Every outcome create_visualizations can have on the working table t.
create_visualizations(t) ==
    IF t = None THEN {Raise("ValueError", NO_DATA, {})}
    ELSE {IF ~k.ok THEN Raise("RuntimeError", VIZ_ERROR, k.names)
          ELSE LET f == create_performance_plots(
                            k.value.temporal_analysis,
                            k.value.channel_performance,
                            k.value.segment_performance)
               IN  IF f.ok THEN f
                   ELSE Raise("RuntimeError", VIZ_ERROR, f.names) :
            k \in calculate_kpis(t)}

\* ------------------------------------------------------------------------
\* visualization.create_heatmap_analysis

\* df.filter(pl.col("Customer_Segment").is_in(segments)), when segments
\* is given and not empty (<<>> stands for both None and the empty list).
filter_segments(t, segments) ==
    IF segments = <<>> THEN Ok(t)
    ELSE IF "Customer_Segment" \notin Columns(t)
    THEN Raise("ColumnNotFoundError", "", {"Customer_Segment"})
    ELSE Ok(Table(t.schema,
                  SelectSeq(t.rows,
                            LAMBDA r : \E k \in DOMAIN segments :
                                           r["Customer_Segment"] = Str(segments[k]))))

\* The correlation matrix of the selected columns: one entry per pair of
\* metrics (the coefficients themselves are not computed here).
corr_matrix(metrics) ==
    [i \in DOMAIN metrics |->
        [j \in DOMAIN metrics |-> [t |-> "corr", a |-> metrics[i],
                                   b |-> metrics[j]]]]

Heatmap(metrics) ==
    [t |-> "fig", title |-> "Analyse des corrélations entre métriques",
     traces |-> <<[kind |-> "heatmap", name |-> "", x |-> metrics,
                   y |-> metrics, z |-> corr_matrix(metrics)]>>]

\* Every outcome create_heatmap_analysis can have.  The length of the
\* metrics list is never tested.  With two or more metrics the figure is
\* returned.  With one metric (or none) DataFrame.corr hands NumPy's
\* result for a single (or no) variable to the DataFrame constructor:
\* depending on the Polars release that raises or gives a 1x1 (or empty)
\* matrix, from which the figure is built and returned.
create_heatmap_analysis(t, metrics, segments) ==
    LET f == filter_segments(t, segments)
    IN  IF ~f.ok THEN {f}
        ELSE IF \E i \in DOMAIN metrics : metrics[i] \notin Columns(t)
        THEN {Raise("ColumnNotFoundError", "",
                    {metrics[CHOOSE i \in DOMAIN metrics :
                                 metrics[i] \notin Columns(t)]})}
        ELSE IF \E i, j \in DOMAIN metrics : i # j /\ metrics[i] = metrics[j]
        THEN {Raise("DuplicateError", "", {})}
        ELSE IF Len(metrics) >= 2 THEN {Ok(Heatmap(metrics))}
        ELSE {Ok(Heatmap(metrics)), Raise("TypeError", "", {})}

\* ------------------------------------------------------------------------
\* MarketingAnalyzer.__init__ / _load_data

LOAD_ERROR == "Erreur lors du chargement des données"

\* pl.read_csv on the data file: the loaded table, or the wrapped error.
_load_data(file) ==
    IF file = Missing THEN Raise("RuntimeError", LOAD_ERROR, {})
    ELSE Ok(file)

\* ------------------------------------------------------------------------
\* main.generate_report

TEMPLATE_QMD == "templates/marketing_report.qmd"
REPORT_QMD == "reports/report.qmd"
REPORT_HTML == "reports/report.html"

QUARTO_OK == "Rapport Quarto généré avec succès"
QUARTO_FAILED == "Erreur lors de la génération du rapport Quarto"
QUARTO_OUTPUT == "e.output.decode()"
QUARTO_MISSING == "Erreur : Quarto n'est pas installé ou n'est pas dans le PATH"
QUARTO_INSTALL == "Veuillez installer Quarto"

\* What subprocess.run(["quarto", "render", ...], check=True,
\* capture_output=True) can do: the tool renders and exits 0, it cannot be
\* started, or it exits non-zero having written nothing, UTF-8 text or
\* other bytes on its standard output.
QuartoBehaviours ==
    {[kind |-> "ok", stdout |-> "empty"],
     [kind |-> "missing", stdout |-> "empty"]}
    \cup {[kind |-> "nonzero", stdout |-> o] :
             o \in {"empty", "utf8", "not_utf8"}}

\* generate_report under tool behaviour q: its outcome, the files it (and
\* the tool) wrote and what it printed.
generate_report(q) ==
    LET written == {TEMPLATE_QMD, REPORT_QMD}
    IN  IF q.kind = "ok"
        THEN [out |-> Ok(None), files |-> written \cup {REPORT_HTML},
              console |-> <<QUARTO_OK>>]
        ELSE IF q.kind = "missing"
        THEN [out |-> Ok(None), files |-> written,
              console |-> <<QUARTO_MISSING, QUARTO_INSTALL>>]
        ELSE IF q.stdout = "empty"
        THEN [out |-> Ok(None), files |-> written,
              console |-> <<QUARTO_FAILED>>]
        ELSE IF q.stdout = "utf8"
        THEN [out |-> Ok(None), files |-> written,
              console |-> <<QUARTO_FAILED, QUARTO_OUTPUT>>]
        ELSE [out |-> Raise("UnicodeDecodeError", "", {}), files |-> written,
              console |-> <<QUARTO_FAILED>>]

\* ------------------------------------------------------------------------
\* Data files

FullSchema ==
    [Campaign_ID |-> "i64", Date |-> "str", Channel_Used |-> "str",
     Customer_Segment |-> "str", Impressions |-> "i64", Clicks |-> "i64",
     Acquisition_Cost |-> "str", Conversion_Rate |-> "f64", ROI |-> "f64",
     Engagement_Score |-> "i64"]

Record(id, date, channel, segment, impressions, clicks, cost, conv, roi, eng) ==
    [Campaign_ID |-> IntVal(id), Date |-> Str(date),
     Channel_Used |-> Str(channel), Customer_Segment |-> Str(segment),
     Impressions |-> IntVal(impressions), Clicks |-> IntVal(clicks),
     Acquisition_Cost |-> Str(cost), Conversion_Rate |-> conv, ROI |-> roi,
     Engagement_Score |-> IntVal(eng)]

Email == <<"E", "m", "a", "i", "l">>
Social == <<"S", "o", "c", "i", "a", "l">>
Jan05 == <<"2", "0", "2", "3", "-", "0", "1", "-", "0", "5">>
Jan20 == <<"2", "0", "2", "3", "-", "0", "1", "-", "2", "0">>
Feb01 == <<"2", "0", "2", "3", "-", "0", "2", "-", "0", "1">>
SlashDate == <<"2", "0", "2", "3", "/", "0", "1", "/", "0", "5">>

\* Campaign records a data file may hold: the three records of the
\* end-to-end scenario, a record with no impressions and no clicks, and
\* records whose cost or date text is not in the expected format.
RecordPool ==
    {Record(1, Jan05, Email, <<"A">>, 100, 10,
            <<"$", "5", "0", ".", "0", "0">>, Rat(1, 10), IntVal(6), 7),
     Record(2, Jan20, Email, <<"B">>, 200, 20,
            <<"$", "1", ",", "2", "3", "4", ".", "0", "0">>, Rat(5, 100),
            IntVal(4), 5),
     Record(1, Feb01, Social, <<"A">>, 50, 5,
            <<"$", "2", "5", ".", "0", "0">>, Rat(2, 10), IntVal(9), 9),
     Record(3, Jan05, Social, <<"B">>, 0, 0,
            <<" ", "$", "9", "9", "9", " ">>, Rat(4, 100), IntVal(7), 8),
     Record(4, Jan05, Email, <<"A">>, 100, 10,
            <<"a", "b", "c">>, Rat(1, 10), IntVal(6), 7),
     Record(5, Jan05, Email, <<"A">>, 100, 10,
            <<"$", "1", ",", "2", "3", "4", ",", "5", "6", "7", ".", "0", "0">>,
            Rat(1, 10), IntVal(6), 7),
     Record(6, SlashDate, Email, <<"A">>, 100, 10,
            <<"$", "5", "0", ".", "0", "0">>, Rat(1, 10), IntVal(6), 7)}

\* pl.read_csv of a file with header columns cs and the given records:
\* the dtypes are inferred from the values, and a file with a header but
\* no record has only text columns.
read_csv(cs, records) ==
    Table([c \in cs |-> IF records = <<>> THEN "str" ELSE FullSchema[c]],
          [i \in DOMAIN records |-> [c \in cs |-> records[i][c]]])

\* The header of a data file: the full schema, or one column short (one
\* column for each place of the pipeline that first needs it).
Headers ==
    {DOMAIN FullSchema}
    \cup {DOMAIN FullSchema \ {c} :
             c \in {"Acquisition_Cost", "Impressions", "ROI", "Date",
                    "Channel_Used", "Campaign_ID"}}

DataFiles ==
    {read_csv(cs, records) :
        cs \in Headers,
        records \in UNION {[1..n -> RecordPool] : n \in 0..MaxRows}}

\* ------------------------------------------------------------------------
\* The analyzer's public calls, in any order

Call(op, out) == [op |-> op, out |-> out]

InitRest ==
    /\ marketing_data = None
    /\ kpis = None
    /\ advanced_analysis = None
    /\ visualizations = None
    /\ files = {}
    /\ console = <<>>
    /\ calls = {}

\* A MarketingAnalyzer has been constructed on a readable data file.
Init ==
    /\ data_file \in DataFiles
    /\ df = _load_data(data_file).value
    /\ result = Call("__init__", Ok(None))
    /\ pc = "api"
    /\ quarto \in {[kind |-> "ok", stdout |-> "empty"]}
    /\ InitRest

CleanData ==
    /\ pc = "api"
    /\ LET r == clean_data(df)
       IN  /\ df' = r.df
           /\ result' = Call("clean_data", r.out)
           /\ calls' = calls \cup {<<"clean_data", r.out.ok>>}
    /\ UNCHANGED <<data_file, marketing_data, pc, kpis, advanced_analysis,
                   visualizations, quarto, files, console>>

\* A calculate_kpis that keeps its channel table as the working table.
CalculateKpis_storing ==
    /\ pc = "api"
    /\ \E o \in calculate_kpis(df) :
           /\ result' = Call("calculate_kpis", o)
           /\ calls' = calls \cup {<<"calculate_kpis", o.ok>>}
           /\ df' = IF o.ok THEN o.value.channel_performance ELSE df
    /\ UNCHANGED <<data_file, marketing_data, pc, kpis, advanced_analysis,
                   visualizations, quarto, files, console>>

CalculateKpis ==
    /\ pc = "api"
    /\ \E o \in calculate_kpis(df) :
           /\ result' = Call("calculate_kpis", o)
           /\ calls' = calls \cup {<<"calculate_kpis", o.ok>>}
    /\ UNCHANGED <<data_file, df, marketing_data, pc, kpis, advanced_analysis,
                   visualizations, quarto, files, console>>

AnalyzeWithDuckdb ==
    /\ pc = "api"
    /\ marketing_data' = IF df = None THEN marketing_data ELSE df
    /\ \E o \in analyze_with_duckdb(df) :
           /\ result' = Call("analyze_with_duckdb", o)
           /\ calls' = calls \cup {<<"analyze_with_duckdb", o.ok>>}
    /\ UNCHANGED <<data_file, df, pc, kpis, advanced_analysis,
                   visualizations, quarto, files, console>>

CreateVisualizations ==
    /\ pc = "api"
    /\ \E o \in create_visualizations(df) :
           /\ result' = Call("create_visualizations", o)
           /\ calls' = calls \cup {<<"create_visualizations", o.ok>>}
    /\ UNCHANGED <<data_file, df, marketing_data, pc, kpis, advanced_analysis,
                   visualizations, quarto, files, console>>

Next ==
    \/ CleanData
    \/ CalculateKpis
    \/ AnalyzeWithDuckdb
    \/ CreateVisualizations

Spec == Init /\ [][Next]_vars

\* ------------------------------------------------------------------------
\* main.main: one run of the pipeline

TASK_LOAD == "Chargement des données..."
TASK_CLEAN == "Nettoyage des données..."
TASK_KPIS == "Calcul des KPIs..."
TASK_DUCKDB == "Analyses avancées..."
TASK_VIZ == "Création des visualisations..."
TASK_REPORT == "Génération du rapport..."
LOADED == "Données chargées avec succès"
SUCCESS == "Analyse terminée avec succès!"
AVAILABLE == "Le rapport est disponible dans"

InitMain ==
    /\ data_file \in DataFiles \cup {Missing}
    /\ df = None
    /\ result = Call("main", Ok(None))
    /\ pc = "load"
    /\ quarto \in QuartoBehaviours
    /\ InitRest

\* analyzer = MarketingAnalyzer(str(DATA_FILE))
MainLoad ==
    /\ pc = "load"
    /\ LET r == _load_data(data_file)
       IN  /\ result' = Call("__init__", IF r.ok THEN Ok(None) ELSE r)
           /\ df' = IF r.ok THEN r.value ELSE df
           /\ console' = console \o <<TASK_LOAD>>
                             \o (IF r.ok THEN <<LOADED>> ELSE <<>>)
           /\ pc' = IF r.ok THEN "clean" ELSE "aborted"
    /\ UNCHANGED <<data_file, marketing_data, kpis, advanced_analysis,
                   visualizations, quarto, files, calls>>

\* MainClean with the exception of clean_data swallowed: the run goes on.
MainClean_swallowed ==
    /\ pc = "clean"
    /\ LET r == clean_data(df)
       IN  /\ result' = Call("clean_data", r.out)
           /\ df' = r.df
           /\ pc' = "kpis"
    /\ console' = console \o <<TASK_CLEAN>>
    /\ UNCHANGED <<data_file, marketing_data, kpis, advanced_analysis,
                   visualizations, quarto, files, calls>>

\* analyzer.clean_data()
MainClean ==
    /\ pc = "clean"
    /\ LET r == clean_data(df)
       IN  /\ result' = Call("clean_data", r.out)
           /\ df' = r.df
           /\ pc' = IF r.out.ok THEN "kpis" ELSE "aborted"
    /\ console' = console \o <<TASK_CLEAN>>
    /\ UNCHANGED <<data_file, marketing_data, kpis, advanced_analysis,
                   visualizations, quarto, files, calls>>

\* kpis = analyzer.calculate_kpis()
MainKpis ==
    /\ pc = "kpis"
    /\ \E o \in calculate_kpis(df) :
           /\ result' = Call("calculate_kpis", o)
           /\ kpis' = IF o.ok THEN o.value ELSE kpis
           /\ pc' = IF o.ok THEN "duckdb" ELSE "aborted"
    /\ console' = console \o <<TASK_KPIS>>
    /\ UNCHANGED <<data_file, df, marketing_data, advanced_analysis,
                   visualizations, quarto, files, calls>>

\* advanced_analysis = analyzer.analyze_with_duckdb()
MainDuckdb ==
    /\ pc = "duckdb"
    /\ marketing_data' = IF df = None THEN marketing_data ELSE df
    /\ \E o \in analyze_with_duckdb(df) :
           /\ result' = Call("analyze_with_duckdb", o)
           /\ advanced_analysis' = IF o.ok THEN o.value ELSE advanced_analysis
           /\ pc' = IF o.ok THEN "viz" ELSE "aborted"
    /\ console' = console \o <<TASK_DUCKDB>>
    /\ UNCHANGED <<data_file, df, kpis, visualizations, quarto, files, calls>>

\* visualizations = analyzer.create_visualizations()
MainVisualizations ==
    /\ pc = "viz"
    /\ \E o \in create_visualizations(df) :
           /\ result' = Call("create_visualizations", o)
           /\ visualizations' = IF o.ok THEN o.value ELSE visualizations
           /\ pc' = IF o.ok THEN "report" ELSE "aborted"
    /\ console' = console \o <<TASK_VIZ>>
    /\ UNCHANGED <<data_file, df, marketing_data, kpis, advanced_analysis,
                   quarto, files, calls>>

\* generate_report(analyzer, kpis, advanced_analysis, visualizations, REPORTS_DIR)
MainReport ==
    /\ pc = "report"
    /\ LET r == generate_report(quarto)
       IN  /\ result' = Call("generate_report", r.out)
           /\ files' = files \cup r.files
           /\ console' = console \o <<TASK_REPORT>> \o r.console
           /\ pc' = IF r.out.ok THEN "finish" ELSE "aborted"
    /\ UNCHANGED <<data_file, df, marketing_data, kpis, advanced_analysis,
                   visualizations, quarto, calls>>

\* The two messages printed after the progress block.
MainFinish ==
    /\ pc = "finish"
    /\ console' = console \o <<SUCCESS, AVAILABLE>>
    /\ pc' = "done"
    /\ UNCHANGED <<data_file, df, marketing_data, result, kpis,
                   advanced_analysis, visualizations, quarto, files, calls>>

NextMain ==
    \/ MainLoad
    \/ MainClean
    \/ MainKpis
    \/ MainDuckdb
    \/ MainVisualizations
    \/ MainReport
    \/ MainFinish

SpecMain == InitMain /\ [][NextMain]_vars

\* ------------------------------------------------------------------------
\* Cleaning one monetary text: clean_monetary_value and clean_data on a
\* data file of one record, over every short text and a family of
\* currency-formatted texts

MoneyAlphabet == {" ", "$", ",", ".", "0", "1", "x"}

FreeTexts == UNION {[1..n -> MoneyAlphabet] : n \in 0..MaxLen}

\* k comma-led groups of three digits.
RECURSIVE ThousandsGroups(_)
ThousandsGroups(k) ==
    IF k = 0 THEN {<<>>}
    ELSE {<<",">> \o g \o rest :
            g \in {<<"0", "0", "0">>, <<"2", "3", "4">>},
            rest \in ThousandsGroups(k - 1)}

CurrencyTexts ==
    {lead \o symbol \o first \o groups \o decimals \o trail :
        lead \in {<<>>, <<" ">>},
        symbol \in {<<>>, <<"$">>},
        first \in {<<"1">>, <<"1", "2">>, <<"9", "9", "9">>},
        groups \in ThousandsGroups(0) \cup ThousandsGroups(1)
                      \cup ThousandsGroups(2),
        decimals \in {<<>>, <<".", "0", "0">>, <<".", "5">>},
        trail \in {<<>>, <<" ">>}}

MoneyTexts == FreeTexts \cup CurrencyTexts

InitMoney ==
    /\ \E text \in MoneyTexts :
           data_file = read_csv(DOMAIN FullSchema,
                                <<Record(1, Jan05, Email, <<"A">>, 100, 10,
                                         text, Rat(1, 10), IntVal(6), 7)>>)
    /\ df = _load_data(data_file).value
    /\ result = Call("__init__", Ok(None))
    /\ pc = "api"
    /\ quarto \in {[kind |-> "ok", stdout |-> "empty"]}
    /\ InitRest

\* clean_monetary_value(df, "Acquisition_Cost") called on the working
\* table, which it does not modify.
CleanMonetaryValue ==
    /\ pc = "api"
    /\ result' = Call("clean_monetary_value",
                      clean_monetary_value(df, "Acquisition_Cost"))
    /\ UNCHANGED <<data_file, df, marketing_data, pc, kpis, advanced_analysis,
                   visualizations, quarto, files, console, calls>>

NextMoney ==
    \/ CleanMonetaryValue
    \/ CleanData

SpecMoney == InitMoney /\ [][NextMoney]_vars

\* ------------------------------------------------------------------------
\* The metric deriver alone: calculate_derived_metrics and
\* add_performance_categories on monetary-cleaned tables

CleanedSchema == [FullSchema EXCEPT !["Acquisition_Cost"] = "f64"]

CleanedRecord(channel, impressions, clicks, cost, conv, roi, eng) ==
    [Record(1, Jan05, channel, <<"A">>, impressions, clicks, <<>>, conv, roi, eng)
        EXCEPT !["Acquisition_Cost"] = cost]

\* Records around every category threshold.
ThresholdRecords ==
    {CleanedRecord(Email, 100, 10, IntVal(50), Rat(c, 1000), Rat(r, 100), e) :
        c \in {0, 49, 50, 51, 99, 100, 101, 1000},
        r \in {-150, 0, 499, 500, 501, 699, 700, 701, 1000},
        e \in 0..MaxScore}

\* Records with and without zero denominators.
DenominatorRecords ==
    {CleanedRecord(Email, i, k, IntVal(cost), Rat(c, 10), IntVal(6), 7) :
        i \in {0, 100}, k \in {0, 5, 10}, cost \in {0, 50}, c \in {0, 1}}

MetricTables ==
    {Table(CleanedSchema, <<r>>) : r \in ThresholdRecords}
    \cup {Table(CleanedSchema, rs) :
             rs \in UNION {[1..n -> DenominatorRecords] : n \in 0..MaxRows}}

InitMetrics ==
    /\ data_file \in MetricTables
    /\ df = data_file
    /\ result = Call("input", Ok(None))
    /\ pc = "fn"
    /\ quarto \in {[kind |-> "ok", stdout |-> "empty"]}
    /\ InitRest

DerivedMetrics ==
    /\ pc = "fn"
    /\ result' = Call("calculate_derived_metrics", calculate_derived_metrics(df))
    /\ UNCHANGED <<data_file, df, marketing_data, pc, kpis, advanced_analysis,
                   visualizations, quarto, files, console, calls>>

PerformanceCategories ==
    /\ pc = "fn"
    /\ result' = Call("add_performance_categories",
                      add_performance_categories(df))
    /\ UNCHANGED <<data_file, df, marketing_data, pc, kpis, advanced_analysis,
                   visualizations, quarto, files, console, calls>>

NextMetrics ==
    \/ DerivedMetrics
    \/ PerformanceCategories

SpecMetrics == InitMetrics /\ [][NextMetrics]_vars

\* ------------------------------------------------------------------------
\* The aggregator alone, on enriched tables

EnrichedTable(rs) == calculate_derived_metrics(Table(CleanedSchema, rs)).value

AggRecords ==
    {CleanedRecord(ch, 100, 10, IntVal(50), Rat(1, 10), IntVal(r), 7) :
        ch \in {<<"A">>, <<"B">>}, r \in {4, 6, 8}}

AggTables ==
    {EnrichedTable(rs) :
        rs \in UNION {[1..n -> AggRecords] : n \in 0..MaxAggRows}}

InitAgg ==
    /\ data_file \in AggTables
    /\ df = data_file
    /\ result = Call("input", Ok(None))
    /\ pc = "fn"
    /\ quarto \in {[kind |-> "ok", stdout |-> "empty"]}
    /\ InitRest

ChannelPerformance ==
    /\ pc = "fn"
    /\ \E o \in _analyze_channel_performance(df) :
           result' = Call("_analyze_channel_performance", o)
    /\ UNCHANGED <<data_file, df, marketing_data, pc, kpis, advanced_analysis,
                   visualizations, quarto, files, console, calls>>

NextAgg ==
    \/ ChannelPerformance

SpecAgg == InitAgg /\ [][NextAgg]_vars

\* ------------------------------------------------------------------------
\* Claims about the analyzer's public calls (specification Spec)

Aggregations == {"calculate_kpis", "analyze_with_duckdb", "create_visualizations"}

\* C1: calculate_kpis, analyze_with_duckdb and create_visualizations raise
\* instead of returning when no clean_data call has succeeded before them.
C1_AggregationNeedsCleanData ==
    (result.op \in Aggregations /\ <<"clean_data", TRUE>> \notin calls)
        => ~result.out.ok

\* C2: a clean_data call that raises leaves the working table as it was
\* before the call.
C2_FailedCleanKeepsTable ==
    [][(result'.op = "clean_data" /\ ~result'.out.ok) => df' = df]_vars

\* ------------------------------------------------------------------------
\* Claims about a run of main (specification SpecMain)

\* The stage a call belongs to, and the task announced when it starts.
StageTasks == <<TASK_LOAD, TASK_CLEAN, TASK_KPIS, TASK_DUCKDB, TASK_VIZ,
                TASK_REPORT>>
StageOf(op) ==
    IF op = "__init__" THEN 1 ELSE IF op = "clean_data" THEN 2
    ELSE IF op = "calculate_kpis" THEN 3 ELSE IF op = "analyze_with_duckdb" THEN 4
    ELSE IF op = "create_visualizations" THEN 5 ELSE 6

Printed(msg) == \E i \in DOMAIN console : console[i] = msg

\* C3: when the load, clean, KPI or DuckDB stage raises, the run has
\* stopped there: no later stage has started or can start, the later
\* results do not exist and the success message is not printed.
C3_RaisingStageStopsRun ==
    (~result.out.ok /\ StageOf(result.op) <= 4) =>
        /\ pc = "aborted"
        /\ ~ENABLED NextMain
        /\ \A k \in (StageOf(result.op) + 1)..6 : ~Printed(StageTasks[k])
        /\ ~Printed(SUCCESS)
        /\ StageOf(result.op) <= 3 => advanced_analysis = None
        /\ StageOf(result.op) <= 2 => kpis = None
        /\ visualizations = None
        /\ files = {}

\* C3 witness: the DuckDB stage raised after the KPIs had been computed.
C3_Witness ==
    /\ result.op = "analyze_with_duckdb"
    /\ ~result.out.ok
    /\ kpis # None
    /\ pc = "aborted"

\* C4: when the rendering tool is missing or exits non-zero,
\* generate_report returns normally having reported the failure, main
\* runs to its end, and the results of the earlier stages are still there.
C4_ToolFailureIsNotFatal ==
    (result.op = "generate_report" /\ quarto.kind \in {"missing", "nonzero"}) =>
        /\ result.out.ok
        /\ pc \in {"finish", "done"}
        /\ Printed(QUARTO_FAILED) \/ Printed(QUARTO_MISSING)
        /\ kpis # None /\ advanced_analysis # None /\ visualizations # None

\* The chart files the report refers to.
ChartFiles ==
    {"visualizations/temporal_trends.html",
     "visualizations/channel_comparison.html",
     "visualizations/segment_matrix.html",
     "visualizations/performance_overview.html"}

\* C5: after a run in which every stage succeeded, the four chart files
\* and the report document exist.
C5_ArtifactsExist ==
    (pc = "done" /\ quarto.kind = "ok") =>
        /\ ChartFiles \subseteq files
        /\ REPORT_HTML \in files

\* ------------------------------------------------------------------------
\* Claims about monetary cleaning (specification SpecMoney)

\* The monetary text of record i of the data file.
CostText(i) == data_file.rows[i]["Acquisition_Cost"].s

AllDigits(s) == \A i \in DOMAIN s : IsDigit(s[i])

\* Digits, or digits in comma-separated groups of three (the first group
\* of one to three digits).
IsGroupedDigits(s) ==
    /\ s # <<>>
    /\ \/ AllDigits(s)
       \/ /\ Len(s) % 4 # 0
          /\ \A i \in DOMAIN s :
                 IF (Len(s) - i + 1) % 4 = 0 THEN s[i] = "," ELSE IsDigit(s[i])

\* A well-formed currency text: optional surrounding whitespace, an
\* optional currency symbol, grouped digits and an optional decimal part.
IsWellFormedCurrency(s) ==
    LET u == strip_chars(s)
        b == IF u # <<>> /\ Head(u) = "$" THEN Tail(u) ELSE u
        dots == {i \in DOMAIN b : b[i] = "."}
    IN  IF dots = {} THEN IsGroupedDigits(b)
        ELSE LET k == CHOOSE i \in dots : \A j \in dots : i <= j
             IN  /\ IsGroupedDigits(SubSeq(b, 1, k - 1))
                 /\ k < Len(b)
                 /\ AllDigits(SubSeq(b, k + 1, Len(b)))

\* The text with whitespace, every currency symbol and every separator
\* removed.
FullyStripped(s) ==
    str_replace_all(str_replace_all(strip_chars(s), "$"), ",")

\* The number a well-formed currency text denotes.
CurrencyValue(s) == FloatOfText(FullyStripped(s))

\* C6: clean_monetary_value, given the table as loaded, turns every
\* well-formed currency text, whatever its number of thousands separators,
\* into the finite non-negative number it denotes.
C6_WellFormedIsCleaned ==
    (result.op = "clean_monetary_value"
        /\ df = data_file
        /\ \A i \in DOMAIN data_file.rows : IsWellFormedCurrency(CostText(i)))
    => /\ result.out.ok
       /\ \A i \in DOMAIN data_file.rows :
              LET v == result.out.value.rows[i]["Acquisition_Cost"]
              IN  v = CurrencyValue(CostText(i)) /\ IsFinite(v) /\ v.n >= 0

\* A text that is a number: an optional sign, digits, at most one decimal
\* point, at least one digit.
IsNumber(s) ==
    LET u == IF s # <<>> /\ Head(s) \in {"+", "-"} THEN Tail(s) ELSE s
        d == str_replace_all(u, ".")
    IN  d # <<>> /\ AllDigits(d) /\ Len(u) - Len(d) <= 1

AtLeast(v, n, d) == v.n * d >= n * v.d

\* The tier of a finite value given the lower bounds of the two upper
\* tiers, as fractions hi/den and mid/den.
Tier(v, hi, mid, den) ==
    IF AtLeast(v, hi, den) THEN "high"
    ELSE IF AtLeast(v, mid, den) THEN "medium" ELSE "low"

RoiLabel(tier) ==
    IF tier = "high" THEN "Haute performance"
    ELSE IF tier = "medium" THEN "Performance moyenne" ELSE "Basse performance"

EngagementLabel(tier) ==
    IF tier = "high" THEN "Très engageant"
    ELSE IF tier = "medium" THEN "Engageant" ELSE "Peu engageant"

ConversionLabel(tier) ==
    IF tier = "high" THEN "Haute conversion"
    ELSE IF tier = "medium" THEN "Conversion moyenne" ELSE "Basse conversion"

\* C8: every row gets one tier per bucket, the thresholds inclusive at
\* the lower bound: ROI 7 and 5, engagement 8 and 6, conversion 0.10 and
\* 0.05 (the labels are the source's names of the tiers).
C8_CategoriesInclusive ==
    result.op \in {"add_performance_categories", "calculate_derived_metrics"} =>
        /\ result.out.ok
        /\ Len(result.out.value.rows) = Len(df.rows)
        /\ \A i \in DOMAIN df.rows :
               LET in  == df.rows[i]
                   out == result.out.value.rows[i]
               IN  /\ out["ROI_Category"] = RoiLabel(Tier(in["ROI"], 7, 5, 1))
                   /\ out["Engagement_Category"] =
                          EngagementLabel(Tier(in["Engagement_Score"], 8, 6, 1))
                   /\ out["Conversion_Category"] =
                          ConversionLabel(Tier(in["Conversion_Rate"], 10, 5, 100))

\* C8 witness: a row with ROI 7.0, engagement 6 and conversion 0.05 has
\* been put in the high, medium and medium tiers.
C8_Witness ==
    /\ result.op = "add_performance_categories"
    /\ result.out.ok
    /\ Len(df.rows) = 1
    /\ df.rows[1]["ROI"] = IntVal(7)
    /\ df.rows[1]["Engagement_Score"] = IntVal(6)
    /\ df.rows[1]["Conversion_Rate"] = Rat(5, 100)
    /\ result.out.value.rows[1]["ROI_Category"] = "Haute performance"
    /\ result.out.value.rows[1]["Engagement_Category"] = "Engageant"
    /\ result.out.value.rows[1]["Conversion_Category"] = "Conversion moyenne"

\* numerator / denominator for finite operands: the exact quotient, or a
\* non-finite value when the denominator is zero.
IsQuotient(v, num, den) ==
    IF den.n = 0 THEN ~IsFinite(v)
    ELSE IsFinite(v) /\ v.n * den.n * num.d = num.n * den.d * v.d

\* C9: calculate_derived_metrics never raises on a zero denominator; CTR
\* is clicks/impressions in every row, and a zero denominator makes that
\* row's CTR, CPC or CPA non-finite while the other rows keep their
\* quotients.
C9_ZeroDenominatorIsNonFinite ==
    result.op = "calculate_derived_metrics" =>
        /\ result.out.ok
        /\ Len(result.out.value.rows) = Len(df.rows)
        /\ \A i \in DOMAIN df.rows :
               LET in  == df.rows[i]
                   out == result.out.value.rows[i]
               IN  /\ IsQuotient(out["CTR"], in["Clicks"], in["Impressions"])
                   /\ IsQuotient(out["CPC"], in["Acquisition_Cost"], in["Clicks"])
                   /\ IsQuotient(out["CPA"], in["Acquisition_Cost"],
                                 Mul(in["Conversion_Rate"], in["Clicks"]))

\* C9 witness: of two rows, the one without impressions has a non-finite
\* CTR and the other has its quotient.
C9_Witness ==
    /\ result.op = "calculate_derived_metrics"
    /\ result.out.ok
    /\ Len(df.rows) = 2
    /\ df.rows[1]["Impressions"] = IntVal(0)
    /\ df.rows[1]["Clicks"] = IntVal(5)
    /\ df.rows[2]["Impressions"] = IntVal(100)
    /\ df.rows[2]["Clicks"] = IntVal(10)
    /\ result.out.value.rows[1]["CTR"] = Inf(1)
    /\ result.out.value.rows[2]["CTR"] = Rat(1, 10)

\* ------------------------------------------------------------------------
\* Claims about the aggregator (specification SpecAgg)

ChannelsOf(t) == {t.rows[i]["Channel_Used"] : i \in DOMAIN t.rows}
RowsOfChannel(t, ch) == {i \in DOMAIN t.rows : t.rows[i]["Channel_Used"] = ch}

RECURSIVE SumOver(_, _, _)
SumOver(t, I, c) ==
    IF I = {} THEN IntVal(0)
    ELSE LET i == CHOOSE k \in I : TRUE
         IN  Add(t.rows[i][c], SumOver(t, I \ {i}, c))

\* C10: channel aggregation returns one row per distinct channel, with the
\* arithmetic mean of the channel's ROI values and the number of its rows,
\* ordered by mean ROI descending.
C10_ChannelAggregation ==
    result.op = "_analyze_channel_performance" =>
        /\ result.out.ok
        /\ LET out == result.out.value.rows
           IN  /\ {out[k]["Channel_Used"] : k \in DOMAIN out} = ChannelsOf(df)
               /\ Len(out) = Cardinality(ChannelsOf(df))
               /\ \A k \in DOMAIN out :
                      LET I == RowsOfChannel(df, out[k]["Channel_Used"])
                      IN  /\ out[k]["campaign_count"] = IntVal(Cardinality(I))
                          /\ Mul(out[k]["avg_roi"], IntVal(Cardinality(I)))
                                 = SumOver(df, I, "ROI")
               /\ \A j, k \in DOMAIN out :
                      j < k => AtLeast(out[j]["avg_roi"], out[k]["avg_roi"].n,
                                       out[k]["avg_roi"].d)

\* C10 witness: channel A with ROI 4 and 6 and channel B with ROI 8 give
\* B (mean 8, one row) before A (mean 5, two rows).
C10_Witness ==
    /\ result.op = "_analyze_channel_performance"
    /\ result.out.ok
    /\ Len(df.rows) = 3
    /\ \A i \in 1..3 : df.rows[i]["Channel_Used"] = Str(<< <<"A">>, <<"A">>, <<"B">> >>[i])
    /\ \A i \in 1..3 : df.rows[i]["ROI"] = IntVal(<<4, 6, 8>>[i])
    /\ Len(result.out.value.rows) = 2
    /\ result.out.value.rows[1]["Channel_Used"] = Str(<<"B">>)
    /\ result.out.value.rows[1]["avg_roi"] = IntVal(8)
    /\ result.out.value.rows[1]["campaign_count"] = IntVal(1)
    /\ result.out.value.rows[2]["Channel_Used"] = Str(<<"A">>)
    /\ result.out.value.rows[2]["avg_roi"] = IntVal(5)
    /\ result.out.value.rows[2]["campaign_count"] = IntVal(2)

\* ------------------------------------------------------------------------
\* The temporal aggregation alone, on cleaned tables (enriched, dates
\* converted) whose rows come in any order

Dec31 == <<"2", "0", "2", "2", "-", "1", "2", "-", "3", "1">>

\* What clean_data leaves of monetary-cleaned records.
CleanedTable(rs) == convert_dates(EnrichedTable(rs)).value

TemporalRecords ==
    {[CleanedRecord(Email, 100, 10, IntVal(50), Rat(1, 10), IntVal(r), 7)
         EXCEPT !["Date"] = Str(d)] :
        d \in {Dec31, Jan05, Jan20, Feb01}, r \in {4, 6}}

TemporalTables ==
    {CleanedTable(rs) :
        rs \in UNION {[1..n -> TemporalRecords] : n \in 0..MaxAggRows}}

InitTemporal ==
    /\ data_file \in TemporalTables
    /\ df = data_file
    /\ result = Call("input", Ok(None))
    /\ pc = "fn"
    /\ quarto \in {[kind |-> "ok", stdout |-> "empty"]}
    /\ InitRest

TemporalPerformance ==
    /\ pc = "fn"
    /\ \E o \in _analyze_temporal_performance(df) :
           result' = Call("_analyze_temporal_performance", o)
    /\ UNCHANGED <<data_file, df, marketing_data, pc, kpis, advanced_analysis,
                   visualizations, quarto, files, console, calls>>

NextTemporal ==
    \/ TemporalPerformance

SpecTemporal == InitTemporal /\ [][NextTemporal]_vars

\* ------------------------------------------------------------------------
\* Claims about the temporal aggregation (specification SpecTemporal)

\* The Date column of a table, as a sequence.
DatesOf(t) == [i \in DOMAIN t.rows |-> t.rows[i]["Date"]]

\* The table with its rows in the order p (a permutation of its indices).
Reordered(t, p) == Table(t.schema, [i \in DOMAIN t.rows |-> t.rows[p[i]]])

StrictlyBefore(a, b) == DateLe(a, b) /\ a # b

\* C11: the temporal aggregation has one row per distinct date of the
\* table, in strictly ascending date order, and every reordering of the
\* table's rows gives the same sequence of dates.
C11_TemporalSortedByDate ==
    (result.op = "_analyze_temporal_performance") =>
        /\ result.out.ok
        /\ LET dates == DatesOf(result.out.value)
           IN  /\ {dates[i] : i \in DOMAIN dates}
                     = {df.rows[i]["Date"] : i \in DOMAIN df.rows}
               /\ \A i, j \in DOMAIN dates :
                      i < j => StrictlyBefore(dates[i], dates[j])
               /\ \A p \in Perms(DOMAIN df.rows) :
                      \A o \in _analyze_temporal_performance(Reordered(df, p)) :
                          o.ok /\ DatesOf(o.value) = dates

\* C11 witness: rows given in descending date order across a year's end,
\* two of them on one date, come out as two rows in ascending order.
C11_Witness ==
    /\ result.op = "_analyze_temporal_performance"
    /\ Len(df.rows) = 3
    /\ df.rows[1]["Date"] = DateOfText(Jan05)
    /\ df.rows[2]["Date"] = DateOfText(Dec31)
    /\ df.rows[3]["Date"] = DateOfText(Jan05)
    /\ DatesOf(result.out.value) = <<DateOfText(Dec31), DateOfText(Jan05)>>

\* ------------------------------------------------------------------------
\* The cross-tab and cohort queries on cleaned tables: tables whose
\* (segment, channel) groups have sizes around the minimum sample size,
\* and short tables with repeated campaign identifiers over several months

\* n records of one (segment, channel) pair, their ROI alternating
\* between roi and roi + 2.
GroupRecords(segment, channel, n, roi) ==
    [k \in 1..n |->
        [CleanedRecord(channel, 100, 10, IntVal(50), Rat(1, 10),
                       IntVal(roi + 2 * (k % 2)), 7)
            EXCEPT !["Customer_Segment"] = Str(segment),
                   !["Campaign_ID"] = IntVal(k)]]

GroupSizes == {0, MIN_CAMPAIGNS - 1, MIN_CAMPAIGNS, MIN_CAMPAIGNS + 1}

CrossTables ==
    {CleanedTable(GroupRecords(<<"A">>, Email, n1, r1)
                  \o GroupRecords(<<"A">>, Social, n2, 6)
                  \o GroupRecords(<<"B">>, Email, n3, 8)) :
        n1 \in GroupSizes, n2 \in GroupSizes, n3 \in GroupSizes,
        r1 \in {4, 6}}

CohortRecords ==
    {[CleanedRecord(Email, 100, 10, IntVal(50), Rat(id, 10), IntVal(4 * id), 7)
         EXCEPT !["Date"] = Str(d),
                !["Customer_Segment"] = Str(s),
                !["Campaign_ID"] = IntVal(id)] :
        d \in {Dec31, Jan05, Jan20}, s \in {<<"A">>, <<"B">>}, id \in {1, 2}}

CohortTables ==
    {CleanedTable(rs) :
        rs \in UNION {[1..n -> CohortRecords] : n \in 0..MaxAggRows}}

InitDuckdb ==
    /\ data_file \in CrossTables \cup CohortTables
    /\ df = data_file
    /\ result = Call("clean_data", Ok(df))
    /\ pc = "api"
    /\ quarto \in {[kind |-> "ok", stdout |-> "empty"]}
    /\ InitRest

\* segment_analysis(df) called on the working table.
SegmentAnalysis ==
    /\ pc = "api"
    /\ \E o \in segment_analysis(df) :
           result' = Call("segment_analysis", o)
    /\ UNCHANGED <<data_file, df, marketing_data, pc, kpis, advanced_analysis,
                   visualizations, quarto, files, console, calls>>

NextDuckdb ==
    \/ AnalyzeWithDuckdb
    \/ SegmentAnalysis

SpecDuckdb == InitDuckdb /\ [][NextDuckdb]_vars

\* ------------------------------------------------------------------------
\* Claims about the cross-tab and the cohorts (specification SpecDuckdb)

\* The rows of the working table with the given segment and channel.
RowsOfPair(s, c) ==
    {i \in DOMAIN df.rows : /\ df.rows[i]["Customer_Segment"] = s
                            /\ df.rows[i]["Channel_Used"] = c}

PairsOf(t) ==
    {<<t.rows[i]["Customer_Segment"], t.rows[i]["Channel_Used"]>> :
        i \in DOMAIN t.rows}

\* C12: the cross-tab of analyze_with_duckdb has a row for a (segment,
\* channel) pair exactly when at least 10 rows of the working table have
\* that pair, one row per such pair, in descending order of mean ROI.
C12_CrossTabMinimumTen ==
    (result.op = "analyze_with_duckdb") =>
        /\ result.out.ok
        /\ LET sc == result.out.value.segment_channel_analysis
           IN  /\ PairsOf(sc) = {p \in PairsOf(df) :
                                    Cardinality(RowsOfPair(p[1], p[2])) >= 10}
               /\ Len(sc.rows) = Cardinality(PairsOf(sc))
               /\ \A i \in DOMAIN sc.rows :
                      sc.rows[i]["campaign_count"] =
                          IntVal(Cardinality(RowsOfPair(
                              sc.rows[i]["Customer_Segment"],
                              sc.rows[i]["Channel_Used"])))
               /\ \A i, j \in DOMAIN sc.rows :
                      i < j => Ge(sc.rows[i]["avg_roi"], sc.rows[j]["avg_roi"])

\* C12 witness: pairs of 9, 10 and 11 rows; the cross-tab holds the last
\* two.
C12_Witness ==
    /\ result.op = "analyze_with_duckdb"
    /\ Cardinality(RowsOfPair(Str(<<"A">>), Str(Email))) = 9
    /\ Cardinality(RowsOfPair(Str(<<"A">>), Str(Social))) = 10
    /\ Cardinality(RowsOfPair(Str(<<"B">>), Str(Email))) = 11
    /\ PairsOf(result.out.value.segment_channel_analysis)
          = {<<Str(<<"A">>), Str(Social)>>, <<Str(<<"B">>), Str(Email)>>}

\* The (segment, channel, mean ROI, mean conversion, count) groups of a
\* cross-tab, whatever the order of its rows.
CrossGroups(t) ==
    {<<t.rows[i]["Customer_Segment"], t.rows[i]["Channel_Used"],
       t.rows[i]["avg_roi"], t.rows[i]["avg_conversion"],
       t.rows[i]["campaign_count"]>> : i \in DOMAIN t.rows}

\* C13: segment_analysis returns, and its segment_channel table has the
\* same groups, with the same mean ROI, mean conversion and count, as the
\* cross-tab the DuckDB query gives for the same table.
C13_NativeEqualsDuckdb ==
    (result.op = "segment_analysis") =>
        /\ result.out.ok
        /\ \A d \in analyze_with_duckdb(df) :
               d.ok => CrossGroups(result.out.value.segment_channel)
                          = CrossGroups(d.value.segment_channel_analysis)

\* The native cross-tab when it is returned: the DuckDB cross-tab plus
\* the groups of fewer than 10 rows.
C13_NativeKeepsSmallGroups ==
    (result.op = "segment_analysis" /\ result.out.ok) =>
        \A d \in analyze_with_duckdb(df) :
            /\ d.ok
            /\ CrossGroups(d.value.segment_channel_analysis)
                  = {g \in CrossGroups(result.out.value.segment_channel) :
                        Ge(g[5], IntVal(10))}

\* C14: the cohort table has one row per (first day of the month,
\* segment) pair of the working table, holding the number of distinct
\* campaign identifiers of the pair's rows and the means of their ROI and
\* conversion rate, ordered by month and then by segment.
C14_CohortAnalysis ==
    (result.op = "analyze_with_duckdb") =>
        /\ result.out.ok
        /\ LET co == result.out.value.cohort_analysis.rows
               Member(i, r) ==
                   /\ df.rows[i]["Date"].y = r["cohort_month"].y
                   /\ df.rows[i]["Date"].m = r["cohort_month"].m
                   /\ df.rows[i]["Customer_Segment"] = r["Customer_Segment"]
               Members(r) == {i \in DOMAIN df.rows : Member(i, r)}
           IN  /\ \A i \in DOMAIN df.rows : \E k \in DOMAIN co : Member(i, co[k])
               /\ \A k \in DOMAIN co :
                      /\ co[k]["cohort_month"].t = "date"
                      /\ co[k]["cohort_month"].d = 1
                      /\ Members(co[k]) # {}
                      /\ co[k]["campaigns"] =
                            IntVal(Cardinality({df.rows[i]["Campaign_ID"] :
                                                   i \in Members(co[k])}))
                      /\ Mul(co[k]["avg_roi"], IntVal(Cardinality(Members(co[k]))))
                            = SumOver(df, Members(co[k]), "ROI")
                      /\ Mul(co[k]["avg_conversion"],
                             IntVal(Cardinality(Members(co[k]))))
                            = SumOver(df, Members(co[k]), "Conversion_Rate")
               /\ \A j, k \in DOMAIN co :
                      j < k =>
                          \/ StrictlyBefore(co[j]["cohort_month"],
                                            co[k]["cohort_month"])
                          \/ /\ co[j]["cohort_month"] = co[k]["cohort_month"]
                             /\ co[j]["Customer_Segment"] # co[k]["Customer_Segment"]
                             /\ LexLe(co[j]["Customer_Segment"].s,
                                      co[k]["Customer_Segment"].s)

\* C14 witness: segment A has identifier 1 twice in January and segment B
\* once in December; December comes first and A counts one campaign.
C14_Witness ==
    /\ result.op = "analyze_with_duckdb"
    /\ Len(df.rows) = 3
    /\ LET co == result.out.value.cohort_analysis.rows
       IN  /\ Len(co) = 2
           /\ co[1]["cohort_month"] = [t |-> "date", y |-> 2022, m |-> 12, d |-> 1]
           /\ co[1]["Customer_Segment"] = Str(<<"B">>)
           /\ co[2]["cohort_month"] = [t |-> "date", y |-> 2023, m |-> 1, d |-> 1]
           /\ co[2]["Customer_Segment"] = Str(<<"A">>)
           /\ co[2]["campaigns"] = IntVal(1)
           /\ df.rows[1]["Date"] # df.rows[3]["Date"]
           /\ df.rows[1]["Customer_Segment"] = Str(<<"A">>)
           /\ df.rows[3]["Customer_Segment"] = Str(<<"A">>)

\* ------------------------------------------------------------------------
\* The plotting functions alone: create_performance_plots on the summary
\* tables of a cleaned table (among them the table with no row), and
\* create_heatmap_analysis on that table with short metrics lists

MaxMetrics == 2

MetricNames == {"ROI", "CTR", "Conversion_Rate"}

MetricLists == UNION {[1..n -> MetricNames] : n \in 0..MaxMetrics}

InitPlots ==
    /\ data_file \in TemporalTables
    /\ df = data_file
    /\ kpis \in {o.value : o \in calculate_kpis(df)}
    /\ result = Call("calculate_kpis", Ok(kpis))
    /\ pc = "fn"
    /\ quarto \in {[kind |-> "ok", stdout |-> "empty"]}
    /\ marketing_data = None
    /\ advanced_analysis = None
    /\ visualizations = None
    /\ files = {}
    /\ console = <<>>
    /\ calls = {}

\* create_performance_plots(kpis["temporal_analysis"],
\* kpis["channel_performance"], kpis["segment_performance"]); the tables
\* passed in are only read.
CreatePerformancePlots ==
    /\ pc = "fn"
    /\ LET o == create_performance_plots(kpis.temporal_analysis,
                                         kpis.channel_performance,
                                         kpis.segment_performance)
       IN  /\ result' = Call("create_performance_plots", o)
           /\ visualizations' = IF o.ok THEN o.value ELSE visualizations
    /\ UNCHANGED <<data_file, df, marketing_data, pc, kpis, advanced_analysis,
                   quarto, files, console, calls>>

\* create_heatmap_analysis(df, metrics, segments)
CreateHeatmapAnalysis ==
    /\ pc = "fn"
    /\ \E metrics \in MetricLists, segments \in {<<>>, << <<"A">> >>} :
           \E o \in create_heatmap_analysis(df, metrics, segments) :
               result' = Call("create_heatmap_analysis", o)
    /\ UNCHANGED <<data_file, df, marketing_data, pc, kpis, advanced_analysis,
                   visualizations, quarto, files, console, calls>>

NextPlots ==
    \/ CreatePerformancePlots
    \/ CreateHeatmapAnalysis

SpecPlots == InitPlots /\ [][NextPlots]_vars

\* ------------------------------------------------------------------------
\* Claims about the plotting functions (specification SpecPlots)

FigureNames ==
    {"temporal_trends", "channel_comparison", "segment_matrix",
     "performance_overview"}

\* C15: given summary tables with no row, create_performance_plots
\* returns its four figures and leaves the tables as they were.
C15_EmptyTablesArePlotted ==
    (/\ result.op = "create_performance_plots"
     /\ kpis.temporal_analysis.rows = <<>>
     /\ kpis.channel_performance.rows = <<>>
     /\ kpis.segment_performance.rows = <<>>) =>
        /\ result.out.ok
        /\ DOMAIN result.out.value = FigureNames
        /\ kpis \in {o.value : o \in calculate_kpis(df)}

\* With at least one row in the segment table the four figures are
\* returned and the summary tables are as they were.
C15_NonEmptyTablesArePlotted ==
    (/\ result.op = "create_performance_plots"
     /\ kpis.segment_performance.rows # <<>>) =>
        /\ result.out.ok
        /\ DOMAIN result.out.value = FigureNames
        /\ kpis \in {o.value : o \in calculate_kpis(df)}

\* C16: create_heatmap_analysis never returns a figure for a metrics list
\* of one name or none: such a call ends in an error.
C16_SingleMetricRejected ==
    (result.op = "create_heatmap_analysis" /\ result.out.ok) =>
        Len(result.out.value.traces[1].x) >= 2

\* ------------------------------------------------------------------------
\* The channel and segment aggregations on cleaned tables in which rows
\* share campaign identifiers

CountRecords ==
    {[CleanedRecord(ch, 100, 10, IntVal(50), Rat(1, 10), IntVal(4 * id), 7)
         EXCEPT !["Customer_Segment"] = Str(s),
                !["Campaign_ID"] = IntVal(id)] :
        ch \in {Email, Social}, s \in {<<"A">>, <<"B">>}, id \in {1, 2}}

CountTables ==
    {CleanedTable(rs) :
        rs \in UNION {[1..n -> CountRecords] : n \in 0..MaxAggRows}}

InitCounts ==
    /\ data_file \in CountTables
    /\ df = data_file
    /\ result = Call("input", Ok(None))
    /\ pc = "fn"
    /\ quarto \in {[kind |-> "ok", stdout |-> "empty"]}
    /\ InitRest

SegmentPerformance ==
    /\ pc = "fn"
    /\ \E o \in _analyze_segment_performance(df) :
           result' = Call("_analyze_segment_performance", o)
    /\ UNCHANGED <<data_file, df, marketing_data, pc, kpis, advanced_analysis,
                   visualizations, quarto, files, console, calls>>

NextCounts ==
    \/ ChannelPerformance
    \/ SegmentPerformance

SpecCounts == InitCounts /\ [][NextCounts]_vars

\* ------------------------------------------------------------------------
\* Claims about row counts (specification SpecCounts)

\* The column an aggregation groups by.
KeyColumn(op) ==
    IF op = "_analyze_channel_performance" THEN "Channel_Used"
    ELSE "Customer_Segment"

\* C17: in the channel and the segment aggregation the campaign_count of
\* a group is the number of rows of the group, rows sharing a campaign
\* identifier included, and the counts of all groups add up to the number
\* of rows of the working table.
C17_CountsRowsNotCampaigns ==
    (result.op \in {"_analyze_channel_performance",
                    "_analyze_segment_performance"}) =>
        /\ result.out.ok
        /\ LET out == result.out.value
               c == KeyColumn(result.op)
           IN  /\ \A k \in DOMAIN out.rows :
                      out.rows[k]["campaign_count"] =
                          IntVal(Cardinality({i \in DOMAIN df.rows :
                                     df.rows[i][c] = out.rows[k][c]}))
               /\ SumSeq(Col(out, "campaign_count")) = IntVal(Len(df.rows))

\* C17 witness: three rows of one channel, two of them with the same
\* campaign identifier, are counted as three.
C17_Witness ==
    /\ result.op = "_analyze_channel_performance"
    /\ Len(df.rows) = 3
    /\ df.rows[1]["Campaign_ID"] = df.rows[2]["Campaign_ID"]
    /\ df.rows[3]["Campaign_ID"] # df.rows[1]["Campaign_ID"]
    /\ Len(result.out.value.rows) = 1
    /\ result.out.value.rows[1]["campaign_count"] = IntVal(3)

\* ------------------------------------------------------------------------
\* Claims about repeated calls on one analyzer (specification Spec)

\* C18: once a clean_data call has succeeded, every further clean_data
\* call raises RuntimeError and leaves the working table as it was.
C18_CleanDataNotRepeatable ==
    [][(<<"clean_data", TRUE>> \in calls /\ result'.op = "clean_data")
            => (/\ ~result'.out.ok
                /\ result'.out.exc = "RuntimeError"
                /\ df' = df
                /\ df.schema["Date"] = "date"
                /\ "CTR" \in Columns(df))]_vars

\* C18 witness: a clean_data call has raised after one that succeeded.
C18_Witness ==
    /\ <<"clean_data", TRUE>> \in calls
    /\ <<"clean_data", FALSE>> \in calls
    /\ result.op = "clean_data"
    /\ ~result.out.ok
    /\ Len(df.rows) >= 1

\* The rows of the four tables calculate_kpis returns, whatever their
\* order.
KpiRows(k) ==
    [n \in {"overall_metrics", "channel_performance", "segment_performance",
            "temporal_analysis"} |->
        {k[n].rows[i] : i \in DOMAIN k[n].rows}]

\* C19: calculate_kpis, analyze_with_duckdb and create_visualizations
\* leave the working table as it is, whether they return or raise, and a
\* calculate_kpis that returns gives the group rows and values that any
\* other calculate_kpis call on the analyzer gives from then on, as long
\* as clean_data is not called.
C19_AggregationsAreReadOnly ==
    [][(result'.op \in Aggregations) =>
          /\ df' = df
          /\ (result'.op = "calculate_kpis" /\ result'.out.ok) =>
                 \A o \in calculate_kpis(df') :
                     o.ok /\ KpiRows(o.value) = KpiRows(result'.out.value)]_vars

\* C19 witness: calculate_kpis has returned after the DuckDB analysis and
\* the visualizations were run on the cleaned table.
C19_Witness ==
    /\ result.op = "calculate_kpis"
    /\ result.out.ok
    /\ {<<"clean_data", TRUE>>, <<"analyze_with_duckdb", TRUE>>,
        <<"create_visualizations", TRUE>>, <<"calculate_kpis", TRUE>>}
          \subseteq calls
    /\ Len(df.rows) = 2
    /\ Len(result.out.value.channel_performance.rows) = 2

=============================================================================
